---- MODULE Spec2Model ----
(***************************************************************************)
(* Model of the ticketing backend (HandikaSetya70/ticketingdb):            *)
(*   - the purchase handler            src/api/tickets/buy.js:12-357       *)
(*   - payment verification            src/api/payments/verify.js          *)
(*   - admin payment verification      src/unnamed/part_007                *)
(*   - the PayPal completion webhook   src/api/payments/paypal-webhook.js  *)
(*   - the two scanner validation handlers                                 *)
(*         src/api/tickets/validate.js  and  src/api/tickets/buy.js:657    *)
(* Every request is an independent serverless invocation; all shared state *)
(* lives in the datastore tables events, payments and tickets.  Each await *)
(* on the datastore is one atomic step of the request that issues it.      *)
(* Money is counted in cents.                                              *)
(***************************************************************************)
EXTENDS Integers, Sequences, FiniteSets, TLC

\* ---------------------------------------------------------------- bounds
NumBuyers == 2          \* concurrent purchase requests
MaxTotal  == 2          \* largest event capacity (total_tickets)
MaxQty    == 2          \* largest quantity a request asks for

NULL == 0               \* a column or payload field that is not set

Buyers     == 1..NumBuyers
PaymentIds == Buyers                  \* crypto.randomUUID(): one fresh id per request
EventIds   == {1, 2}                  \* rows of the events table, in created_at order
NoEvent    == 0                       \* request body without event_id
UnknownEvent == 9                     \* an event_id that matches no row
UnknownTicket == 99                   \* a ticket_id that matches no row

VARIABLES
    events,      \* events table: event_id -> row
    payments,    \* payments table: payment_id -> row (payment_status "none": no row)
    buy,         \* purchase requests: buyer -> locals of the running handler
    restored,    \* restoreTicketAvailability has been called
    tickets,     \* tickets table: set of rows
    hook,        \* webhook deliveries: delivery -> locals of the running handler
    confirmations, \* payment_id -> changes of payment_status from pending to confirmed
    registry,    \* the on-chain ticket registry: token id -> [status, bound_name]
    scan,        \* the validate request of the scanner: locals and response
    validation_log, \* ticket_validation_log table: sequence of rows
    purchase_history \* purchase_history table: set of rows

vars == <<events, payments, buy, restored, tickets, hook, confirmations,
          registry, scan, validation_log, purchase_history>>

\* what the webhook never touches
scanVars == <<scan, validation_log>>

\* what the purchase handler and verify.js never touch
hookVars == <<tickets, hook, confirmations, registry, scan, validation_log,
              purchase_history>>

\* ------------------------------------------------------------ purchase
\* buy.js:117  the largest quantity of one purchase
MAX_PER_PURCHASE == 10

\* the quantity check left out
QuantityOk_Unchecked(quantity) == TRUE

\* buy.js:117  if (quantity < 1 || quantity > 10) -> 400
QuantityOk(quantity) == ~(quantity < 1 \/ quantity > 10)

\* the availability check left out
HasCapacity_Unchecked(available, quantity) == TRUE

\* buy.js:147  if (event.available_tickets < quantity) -> 400
HasCapacity(available, quantity) == ~(available < quantity)

NoPayment ==
    [payment_status |-> "none", amount |-> 0, paypal_order_id |-> NULL,
     paypal_transaction_id |-> NULL, event_id |-> NULL]

\* buy.js:166-173: the inserted columns; event_id and quantity are not among them
NewPayment(totalAmount) ==
    [payment_status |-> "pending", amount |-> totalAmount, paypal_order_id |-> NULL,
     paypal_transaction_id |-> NULL, event_id |-> NULL]

IdleBuyer ==
    [pc |-> "idle", event_id |-> NoEvent, quantity |-> 0, available_tickets |-> 0,
     totalAmount |-> 0, result |-> "none"]

\* the request has answered: of its locals only what it asked for is kept
Returned(locals, r) ==
    [locals EXCEPT !.pc = "done", !.result = r, !.available_tickets = 0]

\* paypalOrder.id handed out by the payment processor for payment p
OrderIdOf(p) == 10 + p

\* buy.js:103-160: input validation, event read, date and availability checks
BuyStart(b, event_id, quantity) ==
    /\ buy[b].pc = "idle"
    /\ LET reject(r) == buy' = [buy EXCEPT ![b] = Returned(IdleBuyer, r)]
       IN  IF event_id = NoEvent THEN reject("event_id_required")
           ELSE IF ~QuantityOk(quantity) THEN reject("bad_quantity")
           ELSE IF event_id \notin EventIds THEN reject("event_not_found")
           ELSE IF ~events[event_id].future THEN reject("event_in_past")
           ELSE IF ~HasCapacity(events[event_id].available_tickets, quantity)
                THEN buy' = [buy EXCEPT ![b] =
                         Returned([IdleBuyer EXCEPT !.event_id = event_id,
                                                    !.quantity = quantity],
                                  "insufficient_capacity")]
           ELSE buy' = [buy EXCEPT ![b] =
                    [pc |-> "insert_payment", event_id |-> event_id, quantity |-> quantity,
                     available_tickets |-> events[event_id].available_tickets,
                     totalAmount |-> events[event_id].ticket_price * quantity,
                     result |-> "none"]]
    /\ UNCHANGED <<events, payments, restored>>
    /\ UNCHANGED hookVars

\* the two purchase handlers of buy.js: 12-357 and 389-630
Versions == {1, 2}

\* users.verification_status of the caller; "none": no row in the users table
VerificationStatuses == {"approved", "pending", "rejected", "none"}

Names == {1, 2}                       \* bound names

\* a name of the request's bound_names that is the empty string
EmptyName == -5

\* req.body.bound_names: no list, one name, two names, a repeated name, an
\* empty name
BoundNameLists == {<<>>, <<1>>, <<1, 2>>, <<1, 1>>, <<EmptyName, 2>>}

\* buy.js:77-100: handler 1 reads the caller's profile and answers 404 without
\* one and 403 unless verification_status is 'approved'; buy.js:410-420:
\* handler 2 only verifies the token.  buy.js:103-107 and 423-427: both take
\* event_id, quantity and device_info from the body, nothing else of it is
\* read; what follows is the same in both handlers.
BuyOpen(version, verification_status, b, event_id, quantity, bound_names) ==
    IF version = 1 /\ verification_status # "approved"
    THEN /\ buy[b].pc = "idle"
         /\ buy' = [buy EXCEPT ![b] =
                 Returned(IdleBuyer, IF verification_status = "none"
                                     THEN "user_not_found" ELSE "not_verified")]
         /\ UNCHANGED <<events, payments, restored>>
         /\ UNCHANGED hookVars
    ELSE BuyStart(b, event_id, quantity)

\* buy.js:162-180: insert the pending payment row; a datastore error aborts with 500
BuyInsertPayment(b) ==
    /\ buy[b].pc = "insert_payment"
    /\ \/ /\ payments' = [payments EXCEPT ![b] = NewPayment(buy[b].totalAmount)]
          /\ buy' = [buy EXCEPT ![b].pc = "reserve"]
       \/ /\ buy' = [buy EXCEPT ![b] = Returned(@, "error")]
          /\ UNCHANGED payments
    /\ UNCHANGED <<events, restored>>
    /\ UNCHANGED hookVars

\* buy.js:182-198: write available_tickets from the value read in BuyStart
BuyReserve(b) ==
    /\ buy[b].pc = "reserve"
    /\ \/ /\ events' = [events EXCEPT ![buy[b].event_id].available_tickets =
                            buy[b].available_tickets - buy[b].quantity]
          /\ buy' = [buy EXCEPT ![b].pc = "paypal"]
       \/ /\ buy' = [buy EXCEPT ![b].pc = "delete_payment", ![b].result = "error"]
          /\ UNCHANGED events
    /\ UNCHANGED <<payments, restored>>
    /\ UNCHANGED hookVars

\* buy.js:230-242: client.execute(request) answers or throws
BuyPayPal(b) ==
    /\ buy[b].pc = "paypal"
    /\ \/ buy' = [buy EXCEPT ![b].pc = "save_order"]
       \/ buy' = [buy EXCEPT ![b].pc = "restore_count", ![b].result = "paypal_error"]
    /\ UNCHANGED <<events, payments, restored>>
    /\ UNCHANGED hookVars

\* buy.js:260-266: "Restore original count"
BuyRestoreCount(b) ==
    /\ buy[b].pc = "restore_count"
    /\ events' = [events EXCEPT ![buy[b].event_id].available_tickets =
                      buy[b].available_tickets]
    /\ buy' = [buy EXCEPT ![b].pc = "delete_payment"]
    /\ UNCHANGED <<payments, restored>>
    /\ UNCHANGED hookVars

\* buy.js:192-195 and 268-273: delete the payment row, then throw
BuyDeletePayment(b) ==
    /\ buy[b].pc = "delete_payment"
    /\ payments' = [payments EXCEPT ![b] = NoPayment]
    /\ buy' = [buy EXCEPT ![b] = Returned(@, @.result)]
    /\ UNCHANGED <<events, restored>>
    /\ UNCHANGED hookVars

\* buy.js:276-333: store paypal_order_id and answer 201
BuySaveOrder(b) ==
    /\ buy[b].pc = "save_order"
    /\ payments' = [payments EXCEPT ![b].paypal_order_id =
                        IF payments[b].payment_status = "none" THEN NULL ELSE OrderIdOf(b)]
    /\ buy' = [buy EXCEPT ![b] = Returned(@, "success")]
    /\ UNCHANGED <<events, restored>>
    /\ UNCHANGED hookVars

\* ------------------------------------------------- payment verification
\* the counter of pending -> confirmed changes saturates at 2
Bump(n) == IF n < 2 THEN n + 1 ELSE n

\* the admin may also put a payment back to pending
AdminStatuses_WithPending == {"confirmed", "failed", "pending"}

\* part_007:35  in_array($data['status'], ['confirmed', 'failed'])
AdminStatuses == {"confirmed", "failed"}

\* part_007:23-45: UPDATE payments SET payment_status = :status WHERE payment_id = :id
AdminVerify(p, status) ==
    /\ payments[p].payment_status # "none"
    /\ status \in AdminStatuses
    /\ payments[p].payment_status # status
    /\ payments' = [payments EXCEPT ![p].payment_status = status]
    /\ confirmations' = [confirmations EXCEPT ![p] =
            IF payments[p].payment_status = "pending" /\ status = "confirmed"
            THEN Bump(@) ELSE @]
    /\ UNCHANGED <<events, buy, restored, tickets, hook, registry>>
    /\ UNCHANGED scanVars
    /\ UNCHANGED purchase_history

\* Math.round(amount / price) for non-negative cents; price 0 gives NaN or Infinity
Round(amount, price) == (2 * amount + price) \div (2 * price)

\* verify.js:200-225: the events table after restoreTicketAvailability(payment).
\* The event is looked up by payment.event_id; without a row nothing is written.
restoreTicketAvailability(payment) ==
    IF payment.event_id \in EventIds /\ events[payment.event_id].ticket_price > 0
    THEN [events EXCEPT ![payment.event_id].available_tickets =
              @ + Round(payment.amount, events[payment.event_id].ticket_price)]
    ELSE events

\* verify.js:52-175: a failed payment triggers restoreTicketAvailability on every call
VerifyPayment(p) ==
    /\ payments[p].payment_status = "failed"
    /\ events' = restoreTicketAvailability(payments[p])
    /\ restored' = TRUE
    /\ UNCHANGED <<payments, buy>>
    /\ UNCHANGED hookVars


\* ------------------------------------------------------------- webhook
NumHooks == 2           \* deliveries of the completion notification
Hooks    == 1..NumHooks
Prices   == {0, 100, 200}             \* ticket_price of an event, in cents

\* paypal-webhook.js:745  if (amountDifference > 0.01), in cents
Epsilon == 1

CAPTURE  == "PAYMENT.CAPTURE.COMPLETED"
APPROVED == "CHECKOUT.ORDER.APPROVED"
DENIED   == "PAYMENT.CAPTURE.DENIED"

\* resource.id of the capture that completes payment p
TxnIdOf(p) == 20 + p

IdleHook ==
    [pc |-> "idle", paypalTransactionId |-> NULL, capturedAmount |-> 0,
     payment_id |-> NULL, amount |-> 0,
     event_id |-> NULL, quantity |-> 0, result |-> "none"]

\* the delivery has been answered: of its locals the payment it resolved and the
\* amount it carried are kept
Answered(locals, res) ==
    [locals EXCEPT !.pc = "done", !.result = res, !.paypalTransactionId = NULL,
                   !.event_id = NULL, !.quantity = 0]

\* the transaction id preferred to every other field
ExtractOrderId_TransactionFirst(r) == r.id

\* paypal-webhook.js:512-575: where the order id is taken from
ExtractOrderId(r) ==
    IF r.event_type = CAPTURE
    THEN LET found == IF r.related_order_id # NULL THEN r.related_order_id
                      ELSE IF r.invoice_id # NULL THEN r.invoice_id
                      ELSE IF r.custom_id # NULL THEN r.custom_id
                      ELSE r.reference_id
         IN  IF found = NULL THEN r.id ELSE found
    ELSE r.id

\* paypal-webhook.js:577-588: purchase_units[0].amount.value, else resource.amount.value,
\* else 0 ("Could not extract payment amount")
ExtractAmount(r) ==
    IF r.unit_amount # NULL THEN r.unit_amount
    ELSE IF r.amount # NULL THEN r.amount
    ELSE 0

\* rows a .eq(column, value).eq('payment_status', 'pending') query returns
PendingRows(column, value) ==
    {p \in PaymentIds : /\ payments[p].payment_status = "pending"
                        /\ value # NULL
                        /\ payments[p][column] = value}

\* rows a .eq('paypal_order_id', value) query returns, whatever their status
AnyStatusRows(value) ==
    {p \in PaymentIds : /\ payments[p].payment_status # "none"
                        /\ value # NULL
                        /\ payments[p].paypal_order_id = value}

\* .single(): the row when exactly one matches, otherwise an error (NULL)
Single(rows) == IF Cardinality(rows) = 1 THEN CHOOSE p \in rows : TRUE ELSE NULL

\* .order('created_at', desc).limit(1).single(): the newest matching row
Newest(rows) == IF rows = {} THEN NULL ELSE CHOOSE p \in rows : \A q \in rows : q <= p

\* paypal-webhook.js:600-728: the lookup cascade; <<payment_id, outcome>>
FindPayment(paypalOrderId, paypalTransactionId) ==
    LET primary == Single(PendingRows("paypal_order_id", paypalOrderId))
        alt     == Single(PendingRows("paypal_order_id", paypalTransactionId))
        txn     == Single(PendingRows("paypal_transaction_id", paypalTransactionId))
        any     == Newest(AnyStatusRows(paypalOrderId))
    IN  IF primary # NULL THEN <<primary, "found">>
        ELSE IF paypalTransactionId # NULL /\ paypalTransactionId # paypalOrderId
        THEN IF alt # NULL THEN <<alt, "found">>
             ELSE IF txn # NULL THEN <<txn, "found">>
             ELSE IF any = NULL THEN <<NULL, "not_found">>
             ELSE IF payments[any].payment_status = "confirmed" THEN <<any, "duplicate">>
             ELSE <<any, "found">>
        ELSE <<NULL, "not_found">>

Abs(x) == IF x < 0 THEN -x ELSE x

\* paypal-webhook.js:737-757: verified "only if we have a valid amount"
AmountMismatch(capturedAmount, amount) ==
    capturedAmount > 0 /\ Abs(capturedAmount - amount) > Epsilon

\* paypal-webhook.js:497-507: the event types that are processed
Handled(event_type) == event_type = CAPTURE \/ event_type = APPROVED

\* paypal-webhook.js:856-862: quantity = amount / price is an integer in 1..10
PriceMatches(amount, price) ==
    /\ price > 0
    /\ amount % price = 0
    /\ amount \div price > 0
    /\ amount \div price <= 10

\* paypal-webhook.js:842-869: future events, newest first; the first whose price matches
FallbackEvent(amount) ==
    LET matching == {e \in EventIds : events[e].future
                                      /\ PriceMatches(amount, events[e].ticket_price)}
    IN  IF matching = {} THEN NULL
        ELSE CHOOSE e \in matching : \A f \in matching : f <= e

\* paypal-webhook.js:814-870: the event the tickets are created for (NULL: it throws)
EventOfPayment(payment) ==
    IF payment.event_id # NULL
    THEN (IF payment.event_id \in EventIds THEN payment.event_id ELSE NULL)
    ELSE FallbackEvent(payment.amount)

\* paypal-webhook.js:455-878: order id and amount extraction, payment lookup, amount
\* check, then the reads of processPaymentManually: event lookup and quantity.
\* All of it only reads; the purchase_history insert that follows the reads
\* is part of the confirming step.
HookReceive(w, r) ==
    /\ hook[w].pc = "idle"
    /\ LET paypalOrderId == ExtractOrderId(r)
           capturedAmount == ExtractAmount(r)
           look == FindPayment(paypalOrderId, r.id)
           answer(res) == hook' = [hook EXCEPT ![w] = Answered(IdleHook, res)]
       IN  IF ~Handled(r.event_type) THEN answer("ignored")
           ELSE IF look[2] = "not_found" THEN answer("not_found")
           ELSE IF look[2] = "duplicate"
                THEN hook' = [hook EXCEPT ![w] =
                         Answered([IdleHook EXCEPT !.payment_id = look[1]], "duplicate")]
           ELSE LET payment == payments[look[1]]
                    event_id == EventOfPayment(payment)
                    got == [IdleHook EXCEPT !.paypalTransactionId = r.id,
                                            !.capturedAmount = capturedAmount,
                                            !.payment_id = look[1],
                                            !.amount = payment.amount]
                IN  IF AmountMismatch(capturedAmount, payment.amount)
                    THEN hook' = [hook EXCEPT ![w] = Answered(got, "amount_mismatch")]
                    ELSE IF event_id = NULL \/ events[event_id].ticket_price = 0
                    THEN hook' = [hook EXCEPT ![w] = Answered(got, "error")]
                    ELSE hook' = [hook EXCEPT ![w] =
                             [got EXCEPT !.pc = "confirm", !.event_id = event_id,
                                  !.quantity = Round(payment.amount,
                                                     events[event_id].ticket_price)]]
    /\ UNCHANGED <<events, payments, buy, restored, tickets, confirmations, registry>>
    /\ UNCHANGED scanVars
    /\ UNCHANGED purchase_history

\* paypal-webhook.js:880-890: the row written to purchase_history
PurchaseLogRow(w) ==
    [payment_id |-> hook[w].payment_id, event_id |-> hook[w].event_id,
     quantity |-> hook[w].quantity]

\* what the purchase_history insert does: the row is stored, the datastore
\* returns an error, or the call throws
LogOutcomes == {"stored", "error", "thrown"}

\* a thrown purchase_history insert passed on to the handler's catch
HookConfirmLogged_Rethrows(w, outcome) ==
    /\ hook[w].pc = "confirm"
    /\ purchase_history' = IF outcome = "stored"
                           THEN purchase_history \cup {PurchaseLogRow(w)}
                           ELSE purchase_history
    /\ \/ /\ outcome # "thrown"
          /\ LET p == hook[w].payment_id IN
             /\ payments' = [payments EXCEPT ![p] =
                    IF @.payment_status = "none" THEN @
                    ELSE [@ EXCEPT !.payment_status = "confirmed",
                                   !.paypal_transaction_id = hook[w].paypalTransactionId]]
             /\ confirmations' = [confirmations EXCEPT ![p] =
                    IF payments[p].payment_status = "pending" THEN Bump(@) ELSE @]
          /\ hook' = [hook EXCEPT ![w] = [IdleHook EXCEPT
                                              !.pc = "insert_tickets",
                                              !.payment_id = hook[w].payment_id,
                                              !.event_id = hook[w].event_id,
                                              !.quantity = hook[w].quantity]]
       \/ /\ hook' = [hook EXCEPT ![w] = Answered(@, "error")]
          /\ UNCHANGED <<payments, confirmations>>
    /\ UNCHANGED <<events, buy, restored, tickets, registry>>
    /\ UNCHANGED scanVars

\* paypal-webhook.js:877-933: the purchase_history insert, whose error is only
\* written to the console whether it is returned or thrown, then
\* update({payment_status: 'confirmed', ...}).eq('payment_id'), whose error is
\* thrown; afterwards the handler uses only the payment, the event and the quantity
HookConfirmLogged(w, outcome) ==
    /\ hook[w].pc = "confirm"
    /\ purchase_history' = IF outcome = "stored"
                           THEN purchase_history \cup {PurchaseLogRow(w)}
                           ELSE purchase_history
    /\ \/ /\ LET p == hook[w].payment_id IN
             /\ payments' = [payments EXCEPT ![p] =
                    IF @.payment_status = "none" THEN @
                    ELSE [@ EXCEPT !.payment_status = "confirmed",
                                   !.paypal_transaction_id = hook[w].paypalTransactionId]]
             /\ confirmations' = [confirmations EXCEPT ![p] =
                    IF payments[p].payment_status = "pending" THEN Bump(@) ELSE @]
          /\ hook' = [hook EXCEPT ![w] = [IdleHook EXCEPT
                                              !.pc = "insert_tickets",
                                              !.payment_id = hook[w].payment_id,
                                              !.event_id = hook[w].event_id,
                                              !.quantity = hook[w].quantity]]
       \/ /\ hook' = [hook EXCEPT ![w] = Answered(@, "error")]
          /\ UNCHANGED <<payments, confirmations>>
    /\ UNCHANGED <<events, buy, restored, tickets, registry>>
    /\ UNCHANGED scanVars

\* the delivery whose purchase_history row is stored
HookConfirm(w) == HookConfirmLogged(w, "stored")

\* crypto.randomUUID() of the i-th ticket generated by delivery w
TicketIdOf(w, i) == 10 * w + i

\* paypal-webhook.js:1198-1230 generateTokenId: a function of the ticket id alone
generateTokenId(ticket_id) == 1000 + ticket_id

\* token ids the registry can hold
TokenIds == {generateTokenId(TicketIdOf(w, i)) : w \in Hooks, i \in 1..MaxQty}

\* getTicketStatus: 0 for a token that was never registered
StatusUnknown == 0
StatusValid   == 1
StatusRevoked == 2

NotRegistered == [status |-> StatusUnknown, bound_name |-> NULL]

\* the words a colon-delimited payload is built from: 'TICKET', 'N/A', the
\* qr_code_hash, and a word that is none of them
TICKET  == -1
NA      == -2
QrHash  == -3
Garbage == -4

\* JSON.stringify of an object with these two members (NULL: null or absent)
JsonObject(ticket_id, blockchain_token_id) ==
    [kind |-> "object", ticket_id |-> ticket_id,
     blockchain_token_id |-> blockchain_token_id, parts |-> <<>>]

\* the JSON text null
JsonNull == [kind |-> "null", ticket_id |-> NULL, blockchain_token_id |-> NULL,
             parts |-> <<>>]

\* a JSON text that is a number, a string, a boolean or an array
JsonScalar == [kind |-> "scalar", ticket_id |-> NULL, blockchain_token_id |-> NULL,
               parts |-> <<>>]

\* a text that is not JSON, as the words between its colons (NULL: an empty word)
PlainText(parts) ==
    [kind |-> "text", ticket_id |-> NULL, blockchain_token_id |-> NULL, parts |-> parts]

\* paypal-webhook.js:955-981: qr_code_data = JSON.stringify(qrData)
QrCodeData(ticket_id, tokenId) == JsonObject(ticket_id, tokenId)

\* revoke.php:803-814 generateFallbackQR: TICKET:ticket_id:qr_code_hash:token or N/A
generateFallbackQR(ticket) ==
    PlainText(<<TICKET, ticket.ticket_id, QrHash,
                IF ticket.nft_token_id = NULL THEN NA ELSE ticket.nft_token_id>>)

\* buy.js:694-747 and validate.js:70-113: JSON.parse, else the split on ':', then
\* the destructuring of the result and the test of ticket_id
ParseQrData(qr_data) ==
    LET decoded(ticket_id, token) ==
            [outcome |-> IF ticket_id = NULL THEN "no_ticket_id" ELSE "ok",
             ticket_id |-> ticket_id, blockchain_token_id |-> token]
        failed(outcome) ==
            [outcome |-> outcome, ticket_id |-> NULL, blockchain_token_id |-> NULL]
    IN  IF qr_data.kind = "object"
        THEN decoded(qr_data.ticket_id, qr_data.blockchain_token_id)
        ELSE IF qr_data.kind = "null" THEN failed("throw")
        ELSE IF qr_data.kind = "scalar" THEN failed("no_ticket_id")
        ELSE LET parts == qr_data.parts IN
             IF Len(parts) >= 3 /\ parts[1] = TICKET
             THEN decoded(parts[2], IF Len(parts) >= 4 THEN parts[4] ELSE NULL)
             ELSE failed("bad_format")

\* paypal-webhook.js:971-1001: the i-th row of the batch
NewTicket(w, i) ==
    [ticket_id |-> TicketIdOf(w, i),
     event_id |-> hook[w].event_id,
     payment_id |-> hook[w].payment_id,
     ticket_status |-> "valid",
     ticket_number |-> i,
     total_tickets_in_group |-> hook[w].quantity,
     is_parent_ticket |-> (i = 1),
     parent_ticket_id |-> IF i = 1 THEN NULL ELSE TicketIdOf(w, 1),
     nft_token_id |-> generateTokenId(TicketIdOf(w, i)),
     qr_code_data |-> QrCodeData(TicketIdOf(w, i), generateTokenId(TicketIdOf(w, i))),
     nft_mint_status |-> "pending",
     bound_name |-> NULL,
     blockchain_registered |-> FALSE,
     blockchain_error |-> "none"]

\* paypal-webhook.js:943-1011: for (let i = 1; i <= quantity; i++)
Batch(w) == {NewTicket(w, i) : i \in 1..hook[w].quantity}

\* paypal-webhook.js:1013-1025: insert the batch; a datastore error is thrown as
\* 'Failed to create tickets' and answered 500
HookInsertTickets(w) ==
    /\ hook[w].pc = "insert_tickets"
    /\ \/ /\ tickets' = tickets \cup Batch(w)
          /\ hook' = [hook EXCEPT ![w].pc = "register"]
       \/ /\ hook' = [hook EXCEPT ![w] = Answered(@, "tickets_not_created")]
          /\ UNCHANGED tickets
    /\ UNCHANGED <<events, payments, buy, restored, confirmations, registry>>
    /\ UNCHANGED scanVars
    /\ UNCHANGED purchase_history

\* ticket ids of the batch of delivery w
BatchIds(w) == {TicketIdOf(w, i) : i \in 1..hook[w].quantity}

\* a failed registration that also withdraws the tickets
RecordRegistration_Withdraws(w, success, error) ==
    /\ tickets' = {IF t.ticket_id \in BatchIds(w)
                   THEN [t EXCEPT !.nft_mint_status = IF success THEN "minted" ELSE "failed",
                                  !.blockchain_registered = success,
                                  !.blockchain_error = error,
                                  !.ticket_status = IF success THEN @ ELSE "revoked"]
                   ELSE t : t \in tickets}
    /\ hook' = [hook EXCEPT ![w] = Answered(@, "success")]

\* paypal-webhook.js:1038-1074 and 759-769: nft_mint_status, blockchain_registered
\* and blockchain_error of the batch are written, then the handler answers 200
RecordRegistration(w, success, error) ==
    /\ tickets' = {IF t.ticket_id \in BatchIds(w)
                   THEN [t EXCEPT !.nft_mint_status = IF success THEN "minted" ELSE "failed",
                                  !.blockchain_registered = success,
                                  !.blockchain_error = error]
                   ELSE t : t \in tickets}
    /\ hook' = [hook EXCEPT ![w] = Answered(@, "success")]

\* the registry after the tokens of the batch of delivery w were registered
Registered(w) ==
    [k \in TokenIds |->
        IF k \in {generateTokenId(id) : id \in BatchIds(w)}
        THEN [status |-> StatusValid, bound_name |-> NULL]
        ELSE registry[k]]

\* paypal-webhook.js:1032-1074: registry registration, then nft_mint_status of the batch
HookRegister(w) ==
    /\ hook[w].pc = "register"
    /\ \E success \in BOOLEAN :
          /\ RecordRegistration(w, success,
                                IF success THEN "none" ELSE "registration failed")
          /\ registry' = IF success THEN Registered(w) ELSE registry
    /\ UNCHANGED <<events, payments, buy, restored, confirmations>>
    /\ UNCHANGED scanVars
    /\ UNCHANGED purchase_history

\* paypal-webhook.js:1124-1131: wallet.getBalance() answers; too little gas and a
\* failed call are thrown into the catch of registerTicketsInBlockchain
RegisterBalance(w) ==
    /\ hook[w].pc = "register"
    /\ \/ /\ hook' = [hook EXCEPT ![w].pc = "send"]
          /\ UNCHANGED tickets
       \/ \E error \in {"insufficient gas", "network"} :
              RecordRegistration(w, FALSE, error)
    /\ UNCHANGED <<events, payments, buy, restored, confirmations, registry>>
    /\ UNCHANGED scanVars
    /\ UNCHANGED purchase_history

\* paypal-webhook.js:1139-1145: registerTicket or batchRegisterTickets answers with
\* the transaction, or is rejected
RegisterSend(w) ==
    /\ hook[w].pc = "send"
    /\ \/ /\ hook' = [hook EXCEPT ![w].pc = "wait"]
          /\ UNCHANGED tickets
       \/ RecordRegistration(w, FALSE, "rejected")
    /\ UNCHANGED <<events, payments, buy, restored, confirmations, registry>>
    /\ UNCHANGED scanVars
    /\ UNCHANGED purchase_history

\* paypal-webhook.js:1151-1152: transaction.wait(2) answers with the receipt
RegisterConfirmed(w) ==
    /\ hook[w].pc = "wait"
    /\ hook' = [hook EXCEPT ![w].pc = "verify"]
    /\ registry' = Registered(w)
    /\ UNCHANGED <<events, payments, buy, restored, confirmations, tickets>>
    /\ UNCHANGED scanVars
    /\ UNCHANGED purchase_history

\* paypal-webhook.js:1153-1155: the timer raced against transaction.wait(2) fires
RegisterTimeout(w) ==
    /\ hook[w].pc = "wait"
    /\ RecordRegistration(w, FALSE, "timeout")
    /\ UNCHANGED <<events, payments, buy, restored, confirmations, registry>>
    /\ UNCHANGED scanVars
    /\ UNCHANGED purchase_history

\* paypal-webhook.js:1166-1170: getTicketStatus of the first token answers, or fails
RegisterVerify(w) ==
    /\ hook[w].pc = "verify"
    /\ \/ LET first == generateTokenId(TicketIdOf(w, 1)) IN
          IF registry[first].status = StatusValid
          THEN RecordRegistration(w, TRUE, "none")
          ELSE RecordRegistration(w, FALSE, "verification failed")
       \/ RecordRegistration(w, FALSE, "network")
    /\ UNCHANGED <<events, payments, buy, restored, confirmations, registry>>
    /\ UNCHANGED scanVars
    /\ UNCHANGED purchase_history

\* the scanner before its first request
IdleScan ==
    [pc |-> "idle", version |-> 0, ticket_id |-> NULL, ticket_status |-> "none",
     bound_name |-> NULL, blockchain_registered |-> FALSE, tokenId |-> NULL,
     contract_verified |-> FALSE, contract_status |-> 0, blockchain_bound_name |-> NULL,
     verification_status |-> "unknown", elapsed |-> 0, validation_result |-> "none",
     warning |-> FALSE, qr_bound_name |-> NULL,
     scanner_info |-> [admin_id |-> NULL, location |-> NULL, device_id |-> NULL],
     log_error |-> FALSE]

\* notifications the payment processor may deliver for payment p
Notification(type, related, ref, id, unit, amt) ==
    [event_type |-> type, related_order_id |-> related, invoice_id |-> NULL,
     custom_id |-> NULL, reference_id |-> ref, id |-> id,
     unit_amount |-> unit, amount |-> amt]

CapturedAmounts(a) ==
    {x \in {a - 2, a, a + 1, a + 500} : x > 0}

Deliveries(p) ==
    LET a == buy[p].totalAmount IN
         {Notification(CAPTURE, OrderIdOf(p), NULL, TxnIdOf(p), NULL, x) :
              x \in CapturedAmounts(a) \cup {NULL}}
    \cup {Notification(CAPTURE, NULL, NULL, TxnIdOf(p), NULL, a),
          Notification(APPROVED, NULL, p, OrderIdOf(p), a, NULL),
          Notification(DENIED, OrderIdOf(p), NULL, TxnIdOf(p), NULL, a)}

\* the state after one purchase of q tickets for event e was opened (buy.js:297)
InitHook ==
    \E e \in EventIds, q \in 1..MaxQty, price1 \in {100}, price2 \in Prices :
        LET price == IF e = 1 THEN price1 ELSE price2 IN
        /\ q <= MaxTotal
        /\ events = [f \in EventIds |->
                       [total_tickets |-> MaxTotal,
                        available_tickets |-> IF f = e THEN MaxTotal - q ELSE MaxTotal,
                        ticket_price |-> IF f = 1 THEN price1 ELSE price2,
                        future |-> TRUE]]
        /\ payments = [p \in PaymentIds |->
                         IF p = 1 THEN [NewPayment(price * q) EXCEPT
                                            !.paypal_order_id = OrderIdOf(1)]
                         ELSE NoPayment]
        /\ buy = [b \in Buyers |->
                    IF b = 1 THEN [pc |-> "done", event_id |-> e, quantity |-> q,
                                   available_tickets |-> 0,
                                   totalAmount |-> price * q, result |-> "success"]
                    ELSE IdleBuyer]
        /\ restored = FALSE
        /\ tickets = {}
        /\ hook = [w \in Hooks |-> IdleHook]
        /\ confirmations = [p \in PaymentIds |-> 0]
        /\ registry = [k \in TokenIds |-> NotRegistered]
        /\ scan = IdleScan
        /\ validation_log = <<>>
        /\ purchase_history = {}

NextHook ==
    \/ \E w \in Hooks, r \in Deliveries(1) : HookReceive(w, r)
    \/ \E w \in Hooks : HookConfirm(w)
    \/ \E w \in Hooks : HookInsertTickets(w)
    \/ \E w \in Hooks : HookRegister(w)
    \/ \E p \in PaymentIds, st \in AdminStatuses : AdminVerify(p, st)

SpecHook == InitHook /\ [][NextHook]_vars

\* one delivery with the registration followed call by call
NextRegister ==
    \/ \E r \in Deliveries(1) : HookReceive(1, r)
    \/ HookConfirm(1)
    \/ HookInsertTickets(1)
    \/ RegisterBalance(1)
    \/ RegisterSend(1)
    \/ RegisterConfirmed(1)
    \/ RegisterTimeout(1)
    \/ RegisterVerify(1)

SpecRegister == InitHook /\ [][NextRegister]_vars

\* the datastore answers every call and the timer of paypal-webhook.js:1153-1155
\* fires; nothing is assumed of the registry
SpecRegisterTimer ==
    /\ SpecRegister
    /\ WF_vars(HookConfirm(1))
    /\ WF_vars(HookInsertTickets(1))
    /\ WF_vars(RegisterTimeout(1))

\* buy.js:158-188, paypal-webhook.js:842-874: a purchase of q tickets of event
\* e was opened at unit price `paid`; when the notification arrives event e is
\* the only event still ahead and its row carries the unit price `now` (the
\* events table is administered outside these files)
InitPrice ==
    \E e \in EventIds, q \in 1..MaxQty :
      \E paid \in Prices, now \in Prices :
        /\ q <= MaxTotal
        /\ events = [f \in EventIds |->
                       [total_tickets |-> MaxTotal,
                        available_tickets |-> IF f = e THEN MaxTotal - q ELSE MaxTotal,
                        ticket_price |-> IF f = e THEN now ELSE paid,
                        future |-> f = e]]
        /\ payments = [p \in PaymentIds |->
                         IF p = 1 THEN [NewPayment(paid * q) EXCEPT
                                            !.paypal_order_id = OrderIdOf(1)]
                         ELSE NoPayment]
        /\ buy = [b \in Buyers |->
                    IF b = 1 THEN [pc |-> "done", event_id |-> e, quantity |-> q,
                                   available_tickets |-> 0,
                                   totalAmount |-> paid * q, result |-> "success"]
                    ELSE IdleBuyer]
        /\ restored = FALSE
        /\ tickets = {}
        /\ hook = [w \in Hooks |-> IdleHook]
        /\ confirmations = [p \in PaymentIds |-> 0]
        /\ registry = [k \in TokenIds |-> NotRegistered]
        /\ scan = IdleScan
        /\ validation_log = <<>>
        /\ purchase_history = {}

\* one delivery for a purchase whose event may have been repriced since
SpecPrice == InitPrice /\ [][NextRegister]_vars

\* one delivery whose purchase_history insert is stored, refused or thrown
NextAudit ==
    \/ NextRegister
    \/ \E outcome \in LogOutcomes \ {"stored"} : HookConfirmLogged(1, outcome)

SpecAudit == InitHook /\ [][NextAudit]_vars

MaxCreated == 1         \* tickets/create requests that insert a row

\* create.php:58  generate_uuid(): the id of the n-th ticket made by tickets/create
CreatedIdOf(n) == 50 + n

\* tickets inserted by tickets/create
Created == {t \in tickets : t.ticket_id \in {CreatedIdOf(n) : n \in 1..MaxCreated}}

\* create.php:19-112 tickets/create: 400 without a payment_id, 404 for an unknown user, 403 for one who is
\* not approved, 404 without a payment row of that user, 403 unless the payment
\* is confirmed, 404 for an event_id that names no event; else one row is
\* inserted into tickets with a fresh id for that payment (the columns not
\* named take the table's defaults); an insert the database refuses answers 503
CreateTicket(verification_status, payment_id, event_id) ==
    /\ Cardinality(Created) < MaxCreated
    /\ IF \/ verification_status # "approved"
          \/ payment_id \notin PaymentIds
          \/ payments[payment_id].payment_status # "confirmed"
          \/ (event_id # NoEvent /\ event_id \notin EventIds)
       THEN UNCHANGED tickets
       ELSE \/ tickets' = tickets \cup
                   {[ticket_id |-> CreatedIdOf(Cardinality(Created) + 1),
                     event_id |-> event_id,
                     payment_id |-> payment_id,
                     ticket_status |-> "valid",
                     ticket_number |-> NULL,
                     total_tickets_in_group |-> NULL,
                     is_parent_ticket |-> FALSE,
                     parent_ticket_id |-> NULL,
                     nft_token_id |-> NULL,
                     qr_code_data |-> PlainText(<<>>),
                     nft_mint_status |-> "pending",
                     bound_name |-> NULL,
                     blockchain_registered |-> FALSE,
                     blockchain_error |-> "none"]}
            \/ UNCHANGED tickets
    /\ UNCHANGED <<events, payments, buy, restored, hook, confirmations, registry>>
    /\ UNCHANGED scanVars
    /\ UNCHANGED purchase_history

\* one delivery of the completion notification and the tickets/create requests
NextCreate ==
    \/ NextRegister
    \/ \E verification_status \in VerificationStatuses,
          payment_id \in PaymentIds \cup {NULL},
          event_id \in EventIds \cup {NoEvent, UnknownEvent} :
            CreateTicket(verification_status, payment_id, event_id)

SpecCreate == InitHook /\ [][NextCreate]_vars

\* an order id the datastore has never seen
UnknownOrder == 77

\* payloads of every shape the extraction of paypal-webhook.js:511-575 tells apart:
\* each handle field absent, naming a payment, or naming nothing stored
Payloads ==
    LET orders == {OrderIdOf(p) : p \in PaymentIds}
        txns   == {TxnIdOf(p) : p \in PaymentIds}
    IN  {Notification(type, rel, ref, id, NULL, 100) :
             type \in {CAPTURE, APPROVED},
             rel \in {NULL, UnknownOrder} \cup orders,
             ref \in {NULL} \cup orders,
             id \in {NULL} \cup orders \cup txns}

\* every buyer has opened a purchase of one ticket for event 1 (buy.js:297); each
\* payment is pending, or was confirmed (paypal-webhook.js:919-933), or was marked
\* failed by the administrator (part_007:40)
InitResolve ==
    \E st \in [PaymentIds -> {"pending", "confirmed", "failed"}] :
        /\ events = [f \in EventIds |->
                       [total_tickets |-> MaxTotal,
                        available_tickets |->
                            IF f = 1 /\ MaxTotal > NumBuyers THEN MaxTotal - NumBuyers
                            ELSE IF f = 1 THEN 0 ELSE MaxTotal,
                        ticket_price |-> 100,
                        future |-> TRUE]]
        /\ payments = [p \in PaymentIds |->
                         [NewPayment(100) EXCEPT
                              !.payment_status = st[p],
                              !.paypal_order_id = OrderIdOf(p),
                              !.paypal_transaction_id =
                                  IF st[p] = "confirmed" THEN TxnIdOf(p) ELSE NULL]]
        /\ buy = [b \in Buyers |->
                    [pc |-> "done", event_id |-> 1, quantity |-> 1,
                     available_tickets |-> 0, totalAmount |-> 100,
                     result |-> "success"]]
        /\ restored = FALSE
        /\ tickets = {}
        /\ hook = [w \in Hooks |-> IdleHook]
        /\ confirmations = [p \in PaymentIds |-> IF st[p] = "confirmed" THEN 1 ELSE 0]
        /\ registry = [k \in TokenIds |-> NotRegistered]
        /\ scan = IdleScan
        /\ validation_log = <<>>
        /\ purchase_history = {}

\* one delivery, of any payload, run to its answer
NextResolve ==
    \/ \E r \in Payloads : HookReceive(1, r)
    \/ HookConfirm(1)
    \/ HookInsertTickets(1)
    \/ HookRegister(1)

SpecResolve == InitResolve /\ [][NextResolve]_vars

\* ---------------------------------------------------------- validation
MaxScans == 2           \* validate requests of the scanner

\* buy.js:926 and validate.js:246  (60 * 60 * 1000) ms
GraceMs == 3600000

\* now - eventDate at the time of the scan, in ms
ElapsedMs == {-1, 1, GraceMs, GraceMs + 1}

\* what a registry call does: it fails or times out, getTicketStatus answers but
\* getBoundName does not, or both answer
Answers == {"none", "status", "all"}

\* buy.js:807-815: blockchainStatus when no token id is known
NotChecked ==
    [contract_verified |-> FALSE, is_revoked |-> FALSE, is_valid |-> FALSE,
     contract_status |-> 0, bound_name |-> NULL]

\* validate.js:194-201: the same default in the older handler
NotChecked_v1 ==
    [contract_verified |-> FALSE, is_revoked |-> FALSE, is_valid |-> FALSE,
     contract_status |-> 1, bound_name |-> NULL]

\* a registry that cannot be reached reported as one that does not know the token
validateTicketOnBlockchain_ErrorUnknown(tokenId, answers) ==
    IF tokenId \notin TokenIds THEN NotChecked
    ELSE IF answers = "none"
    THEN [contract_verified |-> TRUE, is_revoked |-> FALSE, is_valid |-> FALSE,
          contract_status |-> StatusUnknown, bound_name |-> NULL]
    ELSE LET statusNumber == registry[tokenId].status IN
         [contract_verified |-> TRUE,
          is_revoked |-> statusNumber = StatusRevoked,
          is_valid |-> statusNumber = StatusValid,
          contract_status |-> statusNumber,
          bound_name |-> IF answers = "all"
                            /\ (statusNumber = StatusValid \/ statusNumber = StatusRevoked)
                         THEN registry[tokenId].bound_name ELSE NULL]

\* buy.js:1026-1177 validateTicketOnBlockchain: every error and timeout is caught
\* and reported as contract_verified false
validateTicketOnBlockchain(tokenId, answers) ==
    IF answers = "none" \/ tokenId \notin TokenIds THEN NotChecked
    ELSE LET statusNumber == registry[tokenId].status IN
         [contract_verified |-> TRUE,
          is_revoked |-> statusNumber = StatusRevoked,
          is_valid |-> statusNumber = StatusValid,
          contract_status |-> statusNumber,
          bound_name |-> IF answers = "all"
                            /\ (statusNumber = StatusValid \/ statusNumber = StatusRevoked)
                         THEN registry[tokenId].bound_name ELSE NULL]

\* validate.js:324-384 validateTicketOnBlockchain: no bound name is read
validateTicketOnBlockchain_v1(tokenId, answers) ==
    [validateTicketOnBlockchain(tokenId, answers) EXCEPT !.bound_name = NULL]

\* buy.js:838-840  name || null: an empty name counts as no name
OrNull(name) == IF name = EmptyName THEN NULL ELSE name

\* database_only and blockchain_only taken for each other
VerificationStatus_Swapped(dbName, bcName) ==
    IF dbName # NULL /\ bcName # NULL
    THEN (IF dbName = bcName THEN "verified" ELSE "mismatch")
    ELSE IF dbName # NULL THEN "blockchain_only"
    ELSE IF bcName = NULL THEN "legacy_ticket"
    ELSE "database_only"

\* buy.js:855-872: boundNameVerification.verification_status
VerificationStatus(dbName, bcName) ==
    IF dbName # NULL /\ bcName # NULL
    THEN (IF dbName = bcName THEN "verified" ELSE "mismatch")
    ELSE IF dbName # NULL THEN "database_only"
    ELSE IF bcName = NULL THEN "legacy_ticket"
    ELSE "blockchain_only"

\* buy.js:798-800,926: eventHasPassed && (now - eventDate) > (60 * 60 * 1000)
EventEnded(elapsed) == elapsed > 0 /\ elapsed > GraceMs

\* the database revocation check left out
ValidationResult_NoDbRevoked(ticket_status, blockchainStatus, verification_status, elapsed) ==
    IF blockchainStatus.contract_verified /\ blockchainStatus.is_revoked THEN "revoked"
    ELSE IF ticket_status # "valid" THEN "invalid"
    ELSE IF EventEnded(elapsed) THEN "invalid"
    ELSE "valid"

\* a bound-name mismatch refused instead of warned about
ValidationResult_MismatchInvalid(ticket_status, blockchainStatus, verification_status, elapsed) ==
    IF blockchainStatus.contract_verified /\ blockchainStatus.is_revoked THEN "revoked"
    ELSE IF ticket_status = "revoked" THEN "revoked"
    ELSE IF /\ blockchainStatus.contract_verified
            /\ ~blockchainStatus.is_valid
            /\ blockchainStatus.contract_status = StatusUnknown THEN "invalid"
    ELSE IF ticket_status # "valid" THEN "invalid"
    ELSE IF EventEnded(elapsed) THEN "invalid"
    ELSE IF verification_status = "mismatch" THEN "invalid"
    ELSE "valid"

\* the database status left out of the decision
ValidationResult_StatusUnread(ticket_status, blockchainStatus, verification_status, elapsed) ==
    IF blockchainStatus.contract_verified /\ blockchainStatus.is_revoked THEN "revoked"
    ELSE IF /\ blockchainStatus.contract_verified
            /\ ~blockchainStatus.is_valid
            /\ blockchainStatus.contract_status = StatusUnknown THEN "invalid"
    ELSE IF EventEnded(elapsed) THEN "invalid"
    ELSE IF verification_status = "mismatch" THEN "valid_with_warning"
    ELSE "valid"

\* buy.js:881-962: the combined validation logic of the handler with bound names
ValidationResult(ticket_status, blockchainStatus, verification_status, elapsed) ==
    IF blockchainStatus.contract_verified /\ blockchainStatus.is_revoked THEN "revoked"
    ELSE IF ticket_status = "revoked" THEN "revoked"
    ELSE IF /\ blockchainStatus.contract_verified
            /\ ~blockchainStatus.is_valid
            /\ blockchainStatus.contract_status = StatusUnknown THEN "invalid"
    ELSE IF ticket_status # "valid" THEN "invalid"
    ELSE IF EventEnded(elapsed) THEN "invalid"
    ELSE IF verification_status = "mismatch" THEN "valid_with_warning"
    ELSE "valid"

\* validate.js:224-266: the combined validation logic of the older handler
ValidationResult_v1(ticket_status, blockchainStatus, elapsed) ==
    IF blockchainStatus.contract_verified /\ blockchainStatus.is_revoked THEN "revoked"
    ELSE IF ticket_status # "valid" THEN "invalid"
    ELSE IF EventEnded(elapsed) THEN "invalid"
    ELSE "valid"

\* the warning left out
WarningMessage_Never(blockchainStatus, blockchain_registered) == FALSE

\* buy.js:950-955: the valid verdict carries "(Blockchain verification failed)"
WarningMessage(blockchainStatus, blockchain_registered) ==
    ~blockchainStatus.contract_verified /\ blockchain_registered

\* scanner_info of a request: the administrator, the gate and the device
ScannerInfos ==
    {[admin_id |-> a, location |-> 10 + a, device_id |-> 20 + a] : a \in {1, 2}}

\* buy.js:1190-1201 and validate.js:390-401: the row inserted into ticket_validation_log
LogRow(ticket_id, scannerInfo, result) ==
    [ticket_id |-> ticket_id, admin_id |-> scannerInfo.admin_id,
     validation_status |-> result, location |-> scannerInfo.location,
     device_info |-> scannerInfo.device_id]

\* a refused insert thrown on to the handler's catch
logValidationAttempt_Throws(ticket_id, scannerInfo, result, stored, answered) ==
    /\ validation_log' = IF stored
                         THEN Append(validation_log, LogRow(ticket_id, scannerInfo, result))
                         ELSE validation_log
    /\ scan' = [answered EXCEPT !.pc = "done",
                                !.validation_result = IF stored THEN result ELSE "error",
                                !.log_error = ~stored]

\* the log table rewritten to the new row instead of extended by it
logValidationAttempt_Overwrites(ticket_id, scannerInfo, result, stored, answered) ==
    /\ validation_log' = IF stored
                         THEN <<LogRow(ticket_id, scannerInfo, result)>>
                         ELSE validation_log
    /\ scan' = [answered EXCEPT !.pc = "done", !.validation_result = result,
                                !.log_error = ~stored]

\* buy.js:1180-1212 and validate.js:386-411 logValidationAttempt, then the answer:
\* an insert the datastore refuses is written to the console and nothing else
logValidationAttempt(ticket_id, scannerInfo, result, stored, answered) ==
    /\ validation_log' = IF stored
                         THEN Append(validation_log, LogRow(ticket_id, scannerInfo, result))
                         ELSE validation_log
    /\ scan' = [answered EXCEPT !.pc = "done", !.validation_result = result,
                                !.log_error = ~stored]

\* the QR payloads a scanner reads: a ticket id with or without the token id
QrCodes(ticket_id, tokenId) ==
    {JsonObject(id, k) : id \in {ticket_id, UnknownTicket}, k \in {NULL, tokenId}}

\* a QR payload that parses but carries no ticket id
NoTicketId == JsonObject(NULL, NULL)

\* buy.js:666-1022 and validate.js:38-316: an exception anywhere in the handler, such
\* as qr_data that is not a string, is caught and answered 500 with verdict error
ValidateThrow(version, scanner_info) ==
    /\ scan.pc \in {"idle", "done"}
    /\ Len(validation_log) < MaxScans
    /\ scan' = [IdleScan EXCEPT !.version = version, !.scanner_info = scanner_info,
                                !.pc = "done", !.validation_result = "error"]
    /\ UNCHANGED validation_log
    /\ UNCHANGED <<events, payments, buy, restored, tickets, hook, confirmations, registry,
                 purchase_history>>

\* buy.js:694-786 and validate.js:70-181: the payload is decoded; one that cannot be
\* destructured throws into the handler's catch (500 error); one without ticket id
\* or of neither format answers 400 invalid; the ticket is read by the id of the
\* payload; no row answers 404 invalid; the older handler (version 1) answers
\* revoked for a row that is revoked before it asks the registry
ValidateLookup(version, qr_data, scanner_info) ==
    /\ scan.pc \in {"idle", "done"}
    /\ Len(validation_log) < MaxScans
    /\ LET qr == ParseQrData(qr_data)
           rows == {t \in tickets : t.ticket_id = qr.ticket_id}
           asked == [IdleScan EXCEPT !.version = version, !.ticket_id = qr.ticket_id,
                                     !.scanner_info = scanner_info]
       IN  IF qr.outcome = "throw"
           THEN /\ scan' = [asked EXCEPT !.pc = "done", !.validation_result = "error"]
                /\ UNCHANGED validation_log
           ELSE IF qr.outcome # "ok"
           THEN /\ scan' = [asked EXCEPT !.pc = "done", !.validation_result = "invalid"]
                /\ UNCHANGED validation_log
           ELSE IF rows = {}
           THEN \E stored \in BOOLEAN :
                    logValidationAttempt(qr.ticket_id, scanner_info, "invalid", stored, asked)
           ELSE LET ticket == CHOOSE t \in rows : TRUE
                    read == [asked EXCEPT
                               !.ticket_status = ticket.ticket_status,
                               !.bound_name = ticket.bound_name,
                               !.blockchain_registered = ticket.blockchain_registered,
                               !.tokenId = IF qr.blockchain_token_id # NULL
                                           THEN qr.blockchain_token_id
                                           ELSE ticket.nft_token_id]
                IN  IF version = 1 /\ ticket.ticket_status = "revoked"
                    THEN \E stored \in BOOLEAN :
                             logValidationAttempt(qr.ticket_id, scanner_info, "revoked",
                                                  stored, read)
                    ELSE /\ scan' = [read EXCEPT !.pc = "registry"]
                         /\ UNCHANGED validation_log
    /\ UNCHANGED <<events, payments, buy, restored, tickets, hook, confirmations, registry,
                 purchase_history>>

\* buy.js:798-1018 and validate.js:183-310: the registry is asked when a token id is
\* known, the verdict is decided, logged and returned
ValidateDecide(answers, elapsed) ==
    /\ scan.pc = "registry"
    /\ elapsed \in ElapsedMs
    /\ LET blockchainStatus ==
               IF scan.tokenId = NULL
               THEN (IF scan.version = 1 THEN NotChecked_v1 ELSE NotChecked)
               ELSE IF scan.version = 1
                    THEN validateTicketOnBlockchain_v1(scan.tokenId, answers)
                    ELSE validateTicketOnBlockchain(scan.tokenId, answers)
           verification_status ==
               IF scan.version = 1 THEN "unknown"
               ELSE VerificationStatus(scan.bound_name, blockchainStatus.bound_name)
           validationResult ==
               IF scan.version = 1
               THEN ValidationResult_v1(scan.ticket_status, blockchainStatus, elapsed)
               ELSE ValidationResult(scan.ticket_status, blockchainStatus,
                                     verification_status, elapsed)
           decided == [scan EXCEPT
                          !.contract_verified = blockchainStatus.contract_verified,
                          !.contract_status = blockchainStatus.contract_status,
                          !.blockchain_bound_name = blockchainStatus.bound_name,
                          !.verification_status = verification_status,
                          !.elapsed = elapsed,
                          !.warning = /\ scan.version = 2
                                      /\ validationResult = "valid"
                                      /\ WarningMessage(blockchainStatus,
                                                        scan.blockchain_registered)]
       IN  \E stored \in BOOLEAN :
               logValidationAttempt(scan.ticket_id, scan.scanner_info, validationResult,
                                    stored, decided)
    /\ UNCHANGED <<events, payments, buy, restored, tickets, hook, confirmations, registry,
                 purchase_history>>

\* ------------------------------------------------------ specifications
\* the state after the events were created: nothing sold yet
InitInv ==
    /\ \E total \in 1..MaxTotal :
          events = [e \in EventIds |->
                      [total_tickets |-> total, available_tickets |-> total,
                       ticket_price |-> 100 * e, future |-> (e = 1)]]
    /\ payments = [p \in PaymentIds |-> NoPayment]
    /\ buy = [b \in Buyers |-> IdleBuyer]
    /\ restored = FALSE
    /\ tickets = {}
    /\ hook = [w \in Hooks |-> IdleHook]
    /\ confirmations = [p \in PaymentIds |-> 0]
    /\ registry = [k \in TokenIds |-> NotRegistered]
    /\ scan = IdleScan
    /\ validation_log = <<>>
    /\ purchase_history = {}

NextInv ==
    \/ \E b \in Buyers, e \in EventIds \cup {NoEvent, UnknownEvent},
          q \in 0..MaxQty \cup {11} : BuyStart(b, e, q)
    \/ \E b \in Buyers : BuyInsertPayment(b)
    \/ \E b \in Buyers : BuyReserve(b)
    \/ \E b \in Buyers : BuyPayPal(b)
    \/ \E b \in Buyers : BuyRestoreCount(b)
    \/ \E b \in Buyers : BuyDeletePayment(b)
    \/ \E b \in Buyers : BuySaveOrder(b)
    \/ \E p \in PaymentIds : AdminVerify(p, "failed")
    \/ \E p \in PaymentIds : VerifyPayment(p)

SpecInv == InitInv /\ [][NextInv]_vars

\* purchases, rollbacks and failed-payment releases interleaved with one
\* delivery of a completion notification for any of the payments
NextSell ==
    \/ NextInv
    \/ \E p \in PaymentIds : \E r \in Deliveries(p) : HookReceive(1, r)
    \/ HookConfirm(1)
    \/ HookInsertTickets(1)
    \/ HookRegister(1)

SpecSell == InitInv /\ [][NextSell]_vars

\* purchase requests of any caller to either handler, one request at a time
NextOpen ==
    \/ \E version \in Versions, verification_status \in VerificationStatuses,
          e \in EventIds \cup {NoEvent, UnknownEvent},
          q \in 0..MaxQty \cup {11}, bound_names \in BoundNameLists :
            BuyOpen(version, verification_status, 1, e, q, bound_names)
    \/ BuyInsertPayment(1)
    \/ BuyReserve(1)
    \/ BuyPayPal(1)
    \/ BuyRestoreCount(1)
    \/ BuyDeletePayment(1)
    \/ BuySaveOrder(1)

\* the events table when the request arrives: part of the tickets may have
\* been sold before, and any of the events may be over
InitOpen ==
    /\ \E total \in 1..MaxTotal : \E available \in 0..total :
       \E upcoming \in SUBSET EventIds :
          events = [e \in EventIds |->
                      [total_tickets |-> total, available_tickets |-> available,
                       ticket_price |-> 100 * e, future |-> (e \in upcoming)]]
    /\ payments = [p \in PaymentIds |-> NoPayment]
    /\ buy = [b \in Buyers |-> IdleBuyer]
    /\ restored = FALSE
    /\ tickets = {}
    /\ hook = [w \in Hooks |-> IdleHook]
    /\ confirmations = [p \in PaymentIds |-> 0]
    /\ registry = [k \in TokenIds |-> NotRegistered]
    /\ scan = IdleScan
    /\ validation_log = <<>>
    /\ purchase_history = {}

SpecOpen == InitOpen /\ [][NextOpen]_vars

\* buy.js:162-333: the awaited datastore and payment processor calls of request b
BuySteps(b) ==
    \/ BuyInsertPayment(b)
    \/ BuyReserve(b)
    \/ BuyPayPal(b)
    \/ BuyRestoreCount(b)
    \/ BuyDeletePayment(b)
    \/ BuySaveOrder(b)

\* every call a purchase request awaits is answered; which requests, admin
\* decisions and verify calls arrive is left open
SpecInvFair == SpecInv /\ \A b \in Buyers : WF_vars(BuySteps(b))

\* one issued ticket as the datastore and the registry may hold it at the door:
\* any status, with or without a bound name and a token id, registered or not
InitVal ==
    \E ticket_status \in {"valid", "revoked", "used"}, dbName \in {NULL, 1},
       hasToken \in BOOLEAN, minted \in BOOLEAN,
       status \in {StatusUnknown, StatusValid, StatusRevoked}, bcName \in {NULL} \cup Names :
        LET id == TicketIdOf(1, 1) IN
        /\ status = StatusUnknown => bcName = NULL
        /\ events = [e \in EventIds |->
                       [total_tickets |-> MaxTotal, available_tickets |-> MaxTotal - 1,
                        ticket_price |-> 100 * e, future |-> (e = 1)]]
        /\ payments = [p \in PaymentIds |->
                         IF p = 1 THEN [NewPayment(100) EXCEPT
                                            !.payment_status = "confirmed",
                                            !.paypal_order_id = OrderIdOf(1),
                                            !.paypal_transaction_id = TxnIdOf(1)]
                         ELSE NoPayment]
        /\ buy = [b \in Buyers |-> IdleBuyer]
        /\ restored = FALSE
        /\ tickets = {[ticket_id |-> id, event_id |-> 1, payment_id |-> 1,
                       ticket_status |-> ticket_status, ticket_number |-> 1,
                       total_tickets_in_group |-> 1, is_parent_ticket |-> TRUE,
                       parent_ticket_id |-> NULL,
                       nft_token_id |-> IF hasToken THEN generateTokenId(id) ELSE NULL,
                       qr_code_data |->
                           QrCodeData(id, IF hasToken THEN generateTokenId(id) ELSE NULL),
                       nft_mint_status |-> IF minted THEN "minted" ELSE "failed",
                       bound_name |-> dbName,
                       blockchain_registered |-> minted,
                       blockchain_error |-> IF minted THEN "none"
                                            ELSE "registration failed"]}
        /\ hook = [w \in Hooks |-> IdleHook]
        /\ confirmations = [p \in PaymentIds |-> IF p = 1 THEN 1 ELSE 0]
        /\ registry = [k \in TokenIds |->
                         IF k = generateTokenId(id)
                         THEN [status |-> status, bound_name |-> bcName]
                         ELSE NotRegistered]
        /\ scan = IdleScan
        /\ validation_log = <<>>
        /\ purchase_history = {}

\* the two validate handlers, called from the scanners given
NextScan(scanners) ==
    \/ \E version \in {1, 2},
          qr \in QrCodes(TicketIdOf(1, 1), generateTokenId(TicketIdOf(1, 1)))
                 \cup {NoTicketId},
          scanner_info \in scanners :
          ValidateLookup(version, qr, scanner_info)
    \/ \E version \in {1, 2}, scanner_info \in scanners :
          ValidateThrow(version, scanner_info)
    \/ \E answers \in Answers, elapsed \in ElapsedMs : ValidateDecide(answers, elapsed)

\* one scanner at the door
NextVal == NextScan({[admin_id |-> 1, location |-> 11, device_id |-> 21]})

SpecVal == InitVal /\ [][NextVal]_vars

\* a bound name as a source may hold it: none, the empty string, a name
NameValues == {NULL, EmptyName} \cup Names

\* a scan that has read the ticket's bound name, the registry's and the QR
\* payload's, in any combination
InitNames ==
    \E dbName \in NameValues, bcName \in NameValues, qrName \in NameValues :
        /\ events = [e \in EventIds |->
                       [total_tickets |-> MaxTotal, available_tickets |-> MaxTotal,
                        ticket_price |-> 100 * e, future |-> (e = 1)]]
        /\ payments = [p \in PaymentIds |-> NoPayment]
        /\ buy = [b \in Buyers |-> IdleBuyer]
        /\ restored = FALSE
        /\ tickets = {}
        /\ hook = [w \in Hooks |-> IdleHook]
        /\ confirmations = [p \in PaymentIds |-> 0]
        /\ registry = [k \in TokenIds |-> NotRegistered]
        /\ scan = [IdleScan EXCEPT !.pc = "names", !.version = 2,
                                   !.bound_name = dbName,
                                   !.blockchain_bound_name = bcName,
                                   !.qr_bound_name = qrName]
        /\ validation_log = <<>>
        /\ purchase_history = {}

\* buy.js:836-872: boundNameVerification of the three names read
BoundNameVerification ==
    /\ scan.pc = "names"
    /\ scan' = [scan EXCEPT !.pc = "done",
                            !.verification_status =
                                VerificationStatus(OrNull(scan.bound_name),
                                                   OrNull(scan.blockchain_bound_name))]
    /\ UNCHANGED <<events, payments, buy, restored, tickets, hook, confirmations, registry,
                   validation_log, purchase_history>>

SpecNames == InitNames /\ [][BoundNameVerification]_vars

\* revoke.php:22-44: 404 without a row, 409 for a row that is revoked, else the
\* row's ticket_status is set to 'revoked'; an update the database refuses
\* answers 503.  The revocation_log row written after the update
\* (revoke.php:50-57) is read by no handler.
Revoke(ticket_id) ==
    /\ LET rows == {t \in tickets : t.ticket_id = ticket_id}
       IN  IF rows = {}
           THEN UNCHANGED tickets
           ELSE LET ticket == CHOOSE t \in rows : TRUE
                IN  IF ticket.ticket_status = "revoked"
                    THEN UNCHANGED tickets
                    ELSE \/ tickets' = (tickets \ {ticket}) \cup
                                {[ticket EXCEPT !.ticket_status = "revoked"]}
                         \/ UNCHANGED tickets
    /\ UNCHANGED <<events, payments, buy, restored, hook, confirmations, registry>>
    /\ UNCHANGED scanVars
    /\ UNCHANGED purchase_history

\* validate.php:22-73 validate (version 3 of the scan): the row is selected by
\* ticket id and owner; 404 without one, 403 for a row that is not valid, else
\* the ticket is reported valid; a database error answers 503; nothing is written
ValidatePhp(ticket_id, owner) ==
    /\ scan.pc \in {"idle", "done"}
    /\ LET rows == {t \in tickets : t.ticket_id = ticket_id /\ owner}
           asked == [IdleScan EXCEPT !.version = 3, !.ticket_id = ticket_id,
                                     !.pc = "done"]
       IN  \/ scan' = [asked EXCEPT !.validation_result = "error"]
           \/ IF rows = {}
              THEN scan' = [asked EXCEPT !.validation_result = "invalid"]
              ELSE LET ticket == CHOOSE t \in rows : TRUE
                       read == [asked EXCEPT !.ticket_status = ticket.ticket_status]
                   IN  scan' = [read EXCEPT !.validation_result =
                                   IF ticket.ticket_status # "valid"
                                   THEN "revoked" ELSE "valid"]
    /\ UNCHANGED validation_log
    /\ UNCHANGED <<events, payments, buy, restored, tickets, hook, confirmations, registry,
                 purchase_history>>

\* the scanner's validate requests and the admin's revoke requests
NextRevoke ==
    \/ NextVal
    \/ \E ticket_id \in {TicketIdOf(1, 1), UnknownTicket}, owner \in BOOLEAN :
          ValidatePhp(ticket_id, owner)
    \/ \E ticket_id \in {TicketIdOf(1, 1), UnknownTicket} : Revoke(ticket_id)

SpecRevoke == InitVal /\ [][NextRevoke]_vars

\* buy.js:1061-1066: the timer raced against getTicketStatus fires after 10 s
\* whatever the registry does; the catch at buy.js:1147-1176 turns it into an
\* unverified status
RegistryTimeout ==
    \E elapsed \in ElapsedMs : scan.version = 2 /\ ValidateDecide("none", elapsed)

\* the validate handlers with nothing assumed of the registry but that timer
SpecValTimer == SpecVal /\ WF_vars(RegistryTimeout)

\* one ticket with a bound name and a token, registered, in the states the
\* verdicts tell apart
InitLog ==
    \E ticket_status \in {"valid", "revoked"},
       status \in {StatusValid, StatusRevoked}, bcName \in Names :
        LET id == TicketIdOf(1, 1) IN
        /\ events = [e \in EventIds |->
                       [total_tickets |-> MaxTotal, available_tickets |-> MaxTotal - 1,
                        ticket_price |-> 100 * e, future |-> (e = 1)]]
        /\ payments = [p \in PaymentIds |->
                         IF p = 1 THEN [NewPayment(100) EXCEPT
                                            !.payment_status = "confirmed",
                                            !.paypal_order_id = OrderIdOf(1),
                                            !.paypal_transaction_id = TxnIdOf(1)]
                         ELSE NoPayment]
        /\ buy = [b \in Buyers |-> IdleBuyer]
        /\ restored = FALSE
        /\ tickets = {[ticket_id |-> id, event_id |-> 1, payment_id |-> 1,
                       ticket_status |-> ticket_status, ticket_number |-> 1,
                       total_tickets_in_group |-> 1, is_parent_ticket |-> TRUE,
                       parent_ticket_id |-> NULL,
                       nft_token_id |-> generateTokenId(id),
                       qr_code_data |-> QrCodeData(id, generateTokenId(id)),
                       nft_mint_status |-> "minted",
                       bound_name |-> 1,
                       blockchain_registered |-> TRUE,
                       blockchain_error |-> "none"]}
        /\ hook = [w \in Hooks |-> IdleHook]
        /\ confirmations = [p \in PaymentIds |-> IF p = 1 THEN 1 ELSE 0]
        /\ registry = [k \in TokenIds |->
                         IF k = generateTokenId(id)
                         THEN [status |-> status, bound_name |-> bcName]
                         ELSE NotRegistered]
        /\ scan = IdleScan
        /\ validation_log = <<>>
        /\ purchase_history = {}

\* the validate handlers called from every scanner
NextLog == NextScan(ScannerInfos)

SpecLog == InitLog /\ [][NextLog]_vars

\* payloads that are neither a JSON object nor TICKET:... of three parts or more
MalformedQr ==
    {JsonNull, JsonScalar, PlainText(<<Garbage>>),
     PlainText(<<TICKET, TicketIdOf(1, 1)>>),
     PlainText(<<Garbage, TicketIdOf(1, 1), QrHash>>)}

\* what a scanner may read at the door: the payload stored with a ticket at
\* issuance, the fallback payload of a ticket, such payloads cut short or with
\* the ticket id missing, and payloads of no format
QrTexts ==
    {t.qr_code_data : t \in tickets}
    \cup {generateFallbackQR(t) : t \in tickets}
    \cup {PlainText(<<TICKET, t.ticket_id, QrHash>>) : t \in tickets}
    \cup {PlainText(<<TICKET, NULL, QrHash>>), NoTicketId}
    \cup MalformedQr

\* one issued ticket, with or without a registry token id
InitQr ==
    \E ticket_status \in {"valid", "revoked"}, hasToken \in BOOLEAN,
       status \in {StatusUnknown, StatusValid} :
        LET id == TicketIdOf(1, 1)
            tokenId == IF hasToken THEN generateTokenId(id) ELSE NULL IN
        /\ events = [e \in EventIds |->
                       [total_tickets |-> MaxTotal, available_tickets |-> MaxTotal - 1,
                        ticket_price |-> 100 * e, future |-> (e = 1)]]
        /\ payments = [p \in PaymentIds |->
                         IF p = 1 THEN [NewPayment(100) EXCEPT
                                            !.payment_status = "confirmed",
                                            !.paypal_order_id = OrderIdOf(1),
                                            !.paypal_transaction_id = TxnIdOf(1)]
                         ELSE NoPayment]
        /\ buy = [b \in Buyers |-> IdleBuyer]
        /\ restored = FALSE
        /\ tickets = {[ticket_id |-> id, event_id |-> 1, payment_id |-> 1,
                       ticket_status |-> ticket_status, ticket_number |-> 1,
                       total_tickets_in_group |-> 1, is_parent_ticket |-> TRUE,
                       parent_ticket_id |-> NULL,
                       nft_token_id |-> tokenId,
                       qr_code_data |-> QrCodeData(id, tokenId),
                       nft_mint_status |-> IF hasToken /\ status = StatusValid
                                           THEN "minted" ELSE "failed",
                       bound_name |-> NULL,
                       blockchain_registered |-> hasToken /\ status = StatusValid,
                       blockchain_error |-> IF hasToken /\ status = StatusValid
                                            THEN "none" ELSE "registration failed"]}
        /\ hook = [w \in Hooks |-> IdleHook]
        /\ confirmations = [p \in PaymentIds |-> IF p = 1 THEN 1 ELSE 0]
        /\ registry = [k \in TokenIds |->
                         IF hasToken /\ k = generateTokenId(id)
                         THEN [status |-> status, bound_name |-> NULL]
                         ELSE NotRegistered]
        /\ scan = IdleScan
        /\ validation_log = <<>>
        /\ purchase_history = {}

\* the validate handlers reading any payload
NextQr ==
    \/ \E version \in {1, 2}, qr_data \in QrTexts :
          ValidateLookup(version, qr_data, [admin_id |-> 1, location |-> 11, device_id |-> 21])
    \/ \E version \in {1, 2} :
          ValidateThrow(version, [admin_id |-> 1, location |-> 11, device_id |-> 21])
    \/ \E answers \in Answers, elapsed \in ElapsedMs : ValidateDecide(answers, elapsed)

SpecQr == InitQr /\ [][NextQr]_vars

\* ------------------------------------------------------ inventory claims
RECURSIVE SumQuantity(_)
SumQuantity(S) ==
    IF S = {} THEN 0
    ELSE LET b == CHOOSE x \in S : TRUE IN buy[b].quantity + SumQuantity(S \ {b})

\* purchase requests on event e that returned 201 (reserved and not rolled back)
Succeeded(e) == {b \in Buyers : buy[b].pc = "done" /\ buy[b].result = "success"
                                 /\ buy[b].event_id = e}

AllBuyersDone == \A b \in Buyers : buy[b].pc \in {"idle", "done"}

\* C1: in every reachable state, under any interleaving of purchase requests,
\* purchase-open rollbacks and failed-payment releases, every event's counter
\* satisfies 0 <= available_tickets <= total_tickets.
C1_AvailableWithinBounds ==
    \A e \in EventIds :
        /\ 0 <= events[e].available_tickets
        /\ events[e].available_tickets <= events[e].total_tickets

\* a reservation, a purchase-open rollback and a failed-payment release have all
\* acted on event 1, whose counter is below capacity
C1_Witness ==
    /\ \E b \in Buyers : buy[b].pc = "done" /\ buy[b].result = "paypal_error"
                         /\ buy[b].event_id = 1
    /\ Succeeded(1) # {}
    /\ restored
    /\ events[1].available_tickets < events[1].total_tickets

\* C2: with available = 1 and two concurrent requests of quantity 1, exactly one
\* request succeeds, the other fails with insufficient capacity, and available
\* ends at 0 (the payment processor and the datastore answer every call).
C2_ExactlyOneSucceeds ==
    ( /\ events[1].total_tickets = 1
      /\ \A b \in {1, 2} : /\ buy[b].pc = "done"
                           /\ buy[b].event_id = 1
                           /\ buy[b].quantity = 1
                           /\ buy[b].result \in {"success", "insufficient_capacity"}
      /\ \A b \in Buyers \ {1, 2} : buy[b].pc = "idle" )
    => /\ \E b \in {1, 2} : /\ buy[b].result = "success"
                            /\ buy[3 - b].result = "insufficient_capacity"
       /\ events[1].available_tickets = 0

\* C3: once all requests have finished, available_tickets equals the initial
\* value (the capacity) minus the quantities of the purchases that succeeded.
C3_Linearizable ==
    AllBuyersDone =>
        \A e \in EventIds :
            events[e].available_tickets = events[e].total_tickets - SumQuantity(Succeeded(e))

\* -------------------------------------------------------- webhook claims
\* tickets stored for payment p
TicketsOf(p) == {t \in tickets : t.payment_id = p}

\* tickets inserted by delivery w
BatchOf(w) == {t \in tickets : t.ticket_id \div 10 = w}

\* deliveries that resolved payment p and have run the confirming update
PastConfirm(p) ==
    {w \in Hooks : /\ hook[w].payment_id = p
                   /\ \/ hook[w].pc \in {"insert_tickets", "register"}
                      \/ hook[w].pc = "done" /\ hook[w].result = "success"}

\* the captured amount of a notification (0 when missing) against the intent's
Differs(capturedAmount, amount) == Abs(capturedAmount - amount) > Epsilon

\* C4: whatever the number of deliveries of the completion notification for one
\* order handle, sequential or overlapping, the payment's status changes from
\* pending to confirmed at most once.
C4_ConfirmedAtMostOnce == \A p \in PaymentIds : confirmations[p] <= 1

\* two deliveries for payment 1 have both run the confirming update, and the
\* status changed from pending to confirmed once
C4_Witness ==
    /\ Cardinality(PastConfirm(1)) >= 2
    /\ confirmations[1] = 1

\* C5: for any sequence or interleaving of completion notifications of one
\* purchase at most one ticket batch is created for the payment: the tickets
\* stored for a payment never exceed the purchased quantity, and a delivery
\* answered as already processed has inserted no ticket.
C5_AtMostOneBatch ==
    /\ \A p \in PaymentIds : Cardinality(TicketsOf(p)) <= buy[p].quantity
    /\ \A w \in Hooks : hook[w].result = "duplicate" => BatchOf(w) = {}

\* C6: the batch issued for a purchase of quantity Q holds exactly Q tickets
\* numbered 1..Q; number 1 is the only parent and has no parent reference, the
\* other Q-1 reference the parent's ticket id.
C6_BatchShape ==
    \A w \in Hooks : BatchOf(w) # {} =>
        \A p \in PaymentIds : (\E t \in BatchOf(w) : t.payment_id = p) =>
            LET Q == buy[p].quantity
                parents == {t \in BatchOf(w) : t.is_parent_ticket}
            IN  /\ Cardinality(BatchOf(w)) = Q
                /\ {t.ticket_number : t \in BatchOf(w)} = 1..Q
                /\ Cardinality(parents) = 1
                /\ \A t \in parents : t.ticket_number = 1 /\ t.parent_ticket_id = NULL
                /\ \A t \in BatchOf(w) \ parents :
                       \E par \in parents : t.parent_ticket_id = par.ticket_id

\* C7: a delivery that resolved an intent and whose captured amount (missing
\* or zero included) differs from the intent's amount by more than 0.01 ends
\* with the amount-mismatch error; it never goes on to confirm the intent or
\* to insert tickets.
C7_MismatchRejected ==
    \A w \in Hooks :
        ( /\ hook[w].payment_id # NULL
          /\ hook[w].result # "duplicate"
          /\ Differs(hook[w].capturedAmount, hook[w].amount) )
        => /\ hook[w].pc = "done"
           /\ hook[w].result = "amount_mismatch"
           /\ BatchOf(w) = {}

\* ----------------------------------------------------- validation claims
\* the scan found the ticket row and has returned its verdict
Scanned == scan.pc = "done" /\ scan.ticket_status # "none"

\* the ordered decision list of the specification, first match wins
DecisionList(ticket_status, reachable, registryStatus, mismatch, elapsed) ==
    IF reachable /\ registryStatus = StatusRevoked THEN "revoked"
    ELSE IF ticket_status = "revoked" THEN "revoked"
    ELSE IF reachable /\ registryStatus = StatusUnknown THEN "invalid"
    ELSE IF ticket_status # "valid" THEN "invalid"
    ELSE IF elapsed > GraceMs THEN "invalid"
    ELSE IF mismatch THEN "valid_with_warning"
    ELSE "valid"

C9_FailedRegistrationAdmitted ==
    \A t \in tickets :
        ( /\ Scanned
          /\ scan.ticket_id = t.ticket_id
          /\ t.ticket_status = "valid"
          /\ t.nft_mint_status = "failed"
          /\ t.nft_token_id # NULL
          /\ registry[t.nft_token_id].status = StatusUnknown
          /\ ~EventEnded(scan.elapsed) )
        => scan.validation_result \in {"valid", "valid_with_warning"}

\* C10: for every combination of database status, registry result, event time
\* and bound-name state the verdict of validate is the one the ordered decision
\* list gives.
C10_VerdictIsDecisionList ==
    Scanned =>
        scan.validation_result =
            DecisionList(scan.ticket_status, scan.contract_verified, scan.contract_status,
                         /\ scan.bound_name # NULL
                         /\ scan.blockchain_bound_name # NULL
                         /\ scan.bound_name # scan.blockchain_bound_name,
                         scan.elapsed)

\* the registry answered with a bound name that differs from the database's
NamesDiffer ==
    /\ scan.bound_name # NULL
    /\ scan.blockchain_bound_name # NULL
    /\ scan.bound_name # scan.blockchain_bound_name

C13_ReleaseExact ==
    [][\A b \in Buyers :
          /\ (buy[b].pc = "restore_count" /\ buy'[b].pc = "delete_payment")
             => \A e \in EventIds :
                    events'[e].available_tickets =
                        IF e = buy[b].event_id
                        THEN events[e].available_tickets + buy[b].quantity
                        ELSE events[e].available_tickets
          /\ (buy[b].pc # "done" /\ buy'[b].pc = "done"
                 /\ buy'[b].result = "paypal_error")
             => payments'[b].payment_status = "none"]_vars

\* C14: releasing the reservation of a failed payment is idempotent: the first
\* verify call on it raises available_tickets of its event by the quantity the
\* purchase reserved, and a further verify call on it leaves available_tickets
\* unchanged.
C14_ReleaseIdempotent ==
    [][\A p \in PaymentIds :
          (VerifyPayment(p) /\ buy[p].result = "success")
          => IF ~restored
             THEN events' = [events EXCEPT ![buy[p].event_id].available_tickets =
                                 @ + buy[p].quantity]
             ELSE (\A o \in PaymentIds \ {p} : payments[o].payment_status # "failed")
                  => events' = events]_vars

\* C15: the status of a payment row changes only from pending to confirmed or
\* from pending to failed; a confirmed or failed payment keeps its status
\* under every later webhook delivery and every admin verification.
C15_StatusMonotone ==
    [][\A p \in PaymentIds :
          ( /\ payments[p].payment_status # "none"
            /\ payments'[p].payment_status # "none"
            /\ payments'[p].payment_status # payments[p].payment_status )
          => /\ payments[p].payment_status = "pending"
             /\ payments'[p].payment_status \in {"confirmed", "failed"}]_vars

\* C16: a failure of the ticket insert after the payment was confirmed is
\* recoverable: once no delivery is at work, a payment whose insert failed and
\* for which a notification was answered as already processed is not left
\* confirmed without tickets.
C16_InsertFailureRecoverable ==
    \A w1 \in Hooks, w2 \in Hooks :
        ( /\ \A w \in Hooks : hook[w].pc \in {"idle", "done"}
          /\ hook[w1].result = "tickets_not_created"
          /\ hook[w2].result = "duplicate"
          /\ hook[w2].payment_id = hook[w1].payment_id
          /\ payments[hook[w1].payment_id].payment_status = "confirmed" )
        => TicketsOf(hook[w1].payment_id) # {}

\* C17: a notification whose event type is not PAYMENT.CAPTURE.COMPLETED is
\* answered at once as not handled: the delivery goes on to no confirming
\* update, no ticket insert and no registration, and changes no stored state.
C17_OtherTypesIgnored ==
    [][\A w \in Hooks, r \in Deliveries(1) :
          (HookReceive(w, r) /\ r.event_type # CAPTURE)
          => /\ hook'[w].pc = "done"
             /\ hook'[w].result = "ignored"
             /\ UNCHANGED <<payments, tickets, registry>>]_vars

\* the pending payment whose stored order id is h (NULL when there is none)
PendingOf(h) == Single(PendingRows("paypal_order_id", h))

\* the handles a payload carries in the fields the handler reads for its type
HandlesOf(r) ==
    (IF r.event_type = CAPTURE
     THEN {r.related_order_id, r.invoice_id, r.custom_id, r.reference_id, r.id}
     ELSE {r.id}) \ {NULL}

\* payments some handle of the payload is stored with
Identified(r) ==
    {p \in PaymentIds : \/ payments[p].paypal_order_id \in HandlesOf(r)
                        \/ payments[p].paypal_transaction_id \in HandlesOf(r)}

C19_EveryVerdictLogged ==
    [][(scan'.pc = "done" /\ ~scan'.log_error)
       => validation_log' =
              Append(validation_log,
                     [ticket_id |-> scan'.ticket_id,
                      admin_id |-> scan'.scanner_info.admin_id,
                      validation_status |-> scan'.validation_result,
                      location |-> scan'.scanner_info.location,
                      device_info |-> scan'.scanner_info.device_id])]_vars

\* the verdicts a validate call returns
Verdicts == {"valid", "valid_with_warning", "invalid", "revoked", "error"}

\* C20: a failure of the insert into the validation log neither changes nor
\* suppresses the verdict: for the same request, ticket, registry answer and
\* time, a verdict is returned with the log store refusing the row exactly
\* when it is returned with the log store accepting it.
C20_LogFailureKeepsVerdict ==
    /\ scan.pc = "registry"
       => \A answers \in Answers, elapsed \in ElapsedMs, v \in Verdicts :
              (ENABLED ( /\ ValidateDecide(answers, elapsed)
                         /\ scan'.validation_result = v
                         /\ scan'.log_error ))
              <=> (ENABLED ( /\ ValidateDecide(answers, elapsed)
                             /\ scan'.validation_result = v
                             /\ ~scan'.log_error ))
    /\ (scan.pc \in {"idle", "done"} /\ Len(validation_log) < MaxScans)
       => \A version \in {1, 2}, scanner_info \in ScannerInfos, v \in Verdicts,
             qr \in QrCodes(TicketIdOf(1, 1), generateTokenId(TicketIdOf(1, 1))) :
              (ENABLED ( /\ ValidateLookup(version, qr, scanner_info)
                         /\ scan'.pc = "done"
                         /\ scan'.validation_result = v
                         /\ scan'.log_error ))
              <=> (ENABLED ( /\ ValidateLookup(version, qr, scanner_info)
                             /\ scan'.pc = "done"
                             /\ scan'.validation_result = v
                             /\ ~scan'.log_error ))

\* the log store refused the row of a scan and the scan returned a verdict
C20_Witness ==
    /\ scan.pc = "done"
    /\ scan.log_error
    /\ scan.validation_result \in Verdicts \ {"error"}
    /\ \A i \in 1..Len(validation_log) : validation_log[i].ticket_id # scan.ticket_id

\* C21: a QR payload that is neither a structured record nor a TICKET:...
\* string of three parts or more is answered with the verdict invalid, and the
\* handler reads no ticket and writes nothing for it.
C21_MalformedIsInvalid ==
    [][\A qr_data \in MalformedQr, scanner_info \in ScannerInfos :
          ValidateLookup(2, qr_data, scanner_info)
          => /\ scan'.pc = "done"
             /\ scan'.validation_result = "invalid"
             /\ scan'.ticket_status = "none"
             /\ UNCHANGED <<tickets, validation_log, registry>>]_vars

\* C22: for every issued ticket, decoding the payload made for it gives back
\* its ticket_id and its registry token id, for the JSON payload stored at
\* issuance and for the colon-delimited fallback payload, also when the ticket
\* has no registry token id.
C22_QrRoundTrip ==
    \A t \in tickets :
        \A payload \in {t.qr_code_data, generateFallbackQR(t)} :
            /\ ParseQrData(payload).outcome = "ok"
            /\ ParseQrData(payload).ticket_id = t.ticket_id
            /\ ParseQrData(payload).blockchain_token_id = t.nft_token_id

\* C23: issuance does not wait for the registry: once the batch is committed,
\* the completion handler answers with success whatever the registry does,
\* also when the registry never answers.
C23_IssuanceDoesNotWait ==
    (BatchOf(1) # {} /\ hook[1].pc # "done")
        ~> (hook[1].pc = "done" /\ hook[1].result = "success")

\* C24: every registration attempt terminates: the registration status of the
\* tickets of an issued batch eventually leaves pending and becomes minted or
\* failed, also when a registry call never answers.
C24_RegistrationTerminates ==
    (BatchOf(1) # {})
        ~> (\A t \in BatchOf(1) : t.nft_mint_status \in {"minted", "failed"})

C26_UnpaidIsReclaimed ==
    \A p \in PaymentIds :
        (payments[p].payment_status = "pending" /\ buy[p].result = "success")
            ~> \/ payments[p].payment_status = "confirmed"
               \/ (payments[p].payment_status # "pending" /\ restored)

\* C27: a purchase request of a caller whose verification status is not
\* approved ends at once with a rejection, whichever handler receives it: no
\* payment row is created and no available_tickets is changed for it.
C27_UnverifiedIsRejected ==
    [][\A version \in Versions,
          verification_status \in VerificationStatuses \ {"approved"},
          e \in EventIds \cup {NoEvent, UnknownEvent},
          q \in 0..MaxQty \cup {11}, bound_names \in BoundNameLists :
            BuyOpen(version, verification_status, 1, e, q, bound_names)
                => /\ buy'[1].pc = "done"
                   /\ buy'[1].result # "success"
                   /\ UNCHANGED <<events, payments, tickets>>]_vars

\* C28: a purchase request whose quantity is below 1 or above
\* MAX_PER_PURCHASE, or whose event is over, ends at once with a rejection:
\* available_tickets, the payments table and the tickets table are as before.
C28_BadRequestIsRejected ==
    [][\A version \in Versions, verification_status \in VerificationStatuses,
          e \in EventIds \cup {NoEvent, UnknownEvent},
          q \in 0..MaxQty \cup {11}, bound_names \in BoundNameLists :
            ( /\ \/ q < 1
                 \/ q > MAX_PER_PURCHASE
                 \/ (e \in EventIds /\ ~events[e].future)
              /\ BuyOpen(version, verification_status, 1, e, q, bound_names) )
                => /\ buy'[1].pc = "done"
                   /\ buy'[1].result \notin {"none", "success"}
                   /\ UNCHANGED <<events, payments, tickets>>]_vars

\* a request was turned down for its quantity and nothing was written
C28_Witness ==
    /\ buy[1].pc = "done"
    /\ buy[1].result = "bad_quantity"
    /\ payments[1] = NoPayment
    /\ \A e \in EventIds : events[e].available_tickets <= events[e].total_tickets
    /\ tickets = {}

\* C29: a purchase request whose bound_names has not as many names as the
\* quantity, or has an empty name, or has the same name twice, ends at once
\* with a rejection: no payment row is created, no available_tickets changes.
C29_BadNamesAreRejected ==
    [][\A version \in Versions, verification_status \in VerificationStatuses,
          e \in EventIds \cup {NoEvent, UnknownEvent},
          q \in 0..MaxQty \cup {11}, bound_names \in BoundNameLists :
            ( /\ \/ Len(bound_names) # q
                 \/ \E i \in DOMAIN bound_names : bound_names[i] = EmptyName
                 \/ \E i, j \in DOMAIN bound_names :
                        i # j /\ bound_names[i] = bound_names[j]
              /\ BuyOpen(version, verification_status, 1, e, q, bound_names) )
                => /\ buy'[1].pc = "done"
                   /\ buy'[1].result \notin {"none", "success"}
                   /\ UNCHANGED <<events, payments, tickets>>]_vars

C31_ValidateReadOnly ==
    [][(scan' # scan \/ validation_log' # validation_log) =>
          /\ \A t \in tickets : \E u \in tickets' :
                 /\ u.ticket_id = t.ticket_id
                 /\ \/ u = t
                    \/ /\ t.ticket_status = "valid"
                       /\ u = [t EXCEPT !.ticket_status = "used"]
          /\ \A u \in tickets' : \E t \in tickets : u.ticket_id = t.ticket_id
          /\ UNCHANGED <<events, payments, registry>>
          /\ \/ UNCHANGED validation_log
             \/ /\ Len(validation_log') = Len(validation_log) + 1
                /\ SubSeq(validation_log', 1, Len(validation_log)) = validation_log]_vars

\* a second scan of a ticket was answered and logged after the first one: the
\* log holds both rows and the ticket is stored as it was issued
C31_Witness ==
    /\ scan.pc = "done"
    /\ scan.validation_result \in {"valid", "valid_with_warning"}
    /\ Len(validation_log) = 2
    /\ \A i \in 1..2 : validation_log[i].ticket_id = TicketIdOf(1, 1)
    /\ \E t \in tickets : t.ticket_id = TicketIdOf(1, 1) /\ t.ticket_status = "valid"

\* C32: a ticket is inserted only by the issuance step of the completion
\* handler: a step that stores a ticket not stored before is that step, the
\* ticket's payment is confirmed when the step is taken, and no ticket of that
\* payment was stored before it (one batch holds all tickets of a payment).
C32_OnlyIssuanceInserts ==
    [][\A u \in tickets' :
          (\A t \in tickets : t.ticket_id # u.ticket_id) =>
              /\ \E w \in Hooks : HookInsertTickets(w)
              /\ u.payment_id \in PaymentIds
              /\ payments[u.payment_id].payment_status = "confirmed"
              /\ TicketsOf(u.payment_id) = {}]_vars

\* C33: once a ticket is revoked in the datastore, a validation that reads it
\* afterwards never reports it valid: the read takes the row's revoked
\* status, an answer given with the read is a refusal, and the verdict
\* decided from a revoked status read is a refusal.
C33_RevokedStaysRefused ==
    [][\A t \in tickets : t.ticket_status = "revoked" =>
          /\ ( /\ scan.pc \in {"idle", "done"}
               /\ scan' # scan
               /\ scan'.ticket_id = t.ticket_id
               /\ scan'.ticket_status # "none" )
                 => /\ scan'.ticket_status = "revoked"
                    /\ scan'.validation_result \notin {"valid", "valid_with_warning"}
          /\ ( /\ scan.pc = "registry"
               /\ scan.ticket_id = t.ticket_id
               /\ scan.ticket_status = "revoked"
               /\ scan'.pc = "done" )
                 => scan'.validation_result \notin {"valid", "valid_with_warning"}]_vars

\* a ticket was admitted, then revoked, then scanned again and refused: the
\* log has the valid verdict followed by the revoked one
C33_Witness ==
    /\ Len(validation_log) = 2
    /\ validation_log[1].ticket_id = TicketIdOf(1, 1)
    /\ validation_log[1].validation_status = "valid"
    /\ validation_log[2].ticket_id = TicketIdOf(1, 1)
    /\ validation_log[2].validation_status = "revoked"
    /\ scan.pc = "done"
    /\ scan.version = 2
    /\ scan.ticket_status = "revoked"
    /\ scan.validation_result = "revoked"
    /\ \E t \in tickets : t.ticket_id = TicketIdOf(1, 1) /\ t.ticket_status = "revoked"

\* C34: a scan of a ticket with a token id whose registry call fails or times
\* out is answered with the verdict, and the warning, that the same ticket
\* row read at the same time gets when no token id is known and the registry
\* is not asked: the verdict comes from the database status, the event time
\* and the database's bound name alone.
C34_UnreachableRegistryIsNoRegistry ==
    [][\A elapsed \in ElapsedMs :
          (scan.tokenId # NULL /\ ValidateDecide("none", elapsed)) =>
              LET verdict ==
                      IF scan.version = 1
                      THEN ValidationResult_v1(scan.ticket_status, NotChecked_v1, elapsed)
                      ELSE ValidationResult(scan.ticket_status, NotChecked,
                               VerificationStatus(scan.bound_name, NotChecked.bound_name),
                               elapsed)
              IN  /\ scan'.validation_result = verdict
                  /\ scan'.warning = ( /\ scan.version = 2
                                       /\ verdict = "valid"
                                       /\ WarningMessage(NotChecked,
                                                         scan.blockchain_registered) )]_vars

\* a ticket whose token the registry holds as revoked was scanned while the
\* registry could not be reached, and was admitted on the database status
C34_Witness ==
    /\ scan.pc = "done"
    /\ scan.version = 2
    /\ scan.tokenId \in TokenIds
    /\ registry[scan.tokenId].status = StatusRevoked
    /\ ~scan.contract_verified
    /\ scan.ticket_status = "valid"
    /\ scan.validation_result = "valid"

\* C35: a purchase_history insert that returns an error or throws does not
\* stop the delivery: from the point of the insert the step that confirms the
\* payment and goes on to the ticket insert with the same payment, event and
\* quantity can be taken whatever the insert did, and a batch that was
\* inserted belongs to a confirmed payment and is complete, with or without a
\* purchase_history row.
C35_AuditFailureDoesNotBlock ==
    /\ hook[1].pc = "confirm" =>
          \A outcome \in LogOutcomes :
              ENABLED ( /\ HookConfirmLogged(1, outcome)
                        /\ hook'[1].pc = "insert_tickets"
                        /\ hook'[1].payment_id = hook[1].payment_id
                        /\ hook'[1].event_id = hook[1].event_id
                        /\ hook'[1].quantity = hook[1].quantity
                        /\ payments'[hook[1].payment_id].payment_status = "confirmed" )
    /\ BatchOf(1) # {} =>
          \A t \in BatchOf(1) :
              /\ payments[t.payment_id].payment_status = "confirmed"
              /\ t.total_tickets_in_group = Cardinality(BatchOf(1))
              /\ t.ticket_number \in 1..Cardinality(BatchOf(1))

\* the purchase_history insert failed and the delivery confirmed the payment
\* and inserted the batch of two tickets all the same
C35_Witness ==
    /\ purchase_history = {}
    /\ hook[1].pc = "done"
    /\ hook[1].result = "success"
    /\ payments[1].payment_status = "confirmed"
    /\ Cardinality(BatchOf(1)) = 2

\* C36: the class assigned to the three names read is verified when the
\* database and the registry both have a name and the names are equal,
\* mismatch when both have one and they differ, database_only when only the
\* database has one, blockchain_only when only the registry has one,
\* legacy_ticket when neither has one; it is one of these five for every
\* combination of database, registry and QR names.
C36_Classification ==
    scan.pc = "done" =>
        LET hasDb == scan.bound_name \notin {NULL, EmptyName}
            hasBc == scan.blockchain_bound_name \notin {NULL, EmptyName}
            class == scan.verification_status
        IN  /\ class \in {"verified", "mismatch", "database_only", "blockchain_only",
                          "legacy_ticket"}
            /\ class = "verified" <=>
                   (hasDb /\ hasBc /\ scan.bound_name = scan.blockchain_bound_name)
            /\ class = "mismatch" <=>
                   (hasDb /\ hasBc /\ scan.bound_name # scan.blockchain_bound_name)
            /\ class = "database_only" <=> (hasDb /\ ~hasBc)
            /\ class = "blockchain_only" <=> (~hasDb /\ hasBc)
            /\ class = "legacy_ticket" <=> (~hasDb /\ ~hasBc)

\* the database and the registry disagree while the QR payload carries the
\* database's name: the class is mismatch
C36_Witness ==
    /\ scan.pc = "done"
    /\ scan.bound_name = 1
    /\ scan.blockchain_bound_name = 2
    /\ scan.qr_bound_name = 1
    /\ scan.verification_status = "mismatch"

\* C37: the number of tickets issued for a confirmed intent equals the quantity
\* reserved when the purchase was opened, also when the event's unit price
\* changed between purchase and notification and when the unit price is zero.
C37_IssuedEqualsReserved ==
    \A p \in PaymentIds :
        payments[p].payment_status = "confirmed" /\ TicketsOf(p) # {} =>
            Cardinality(TicketsOf(p)) = buy[p].quantity

\* tickets stored for event e
IssuedFor(e) == {t \in tickets : t.event_id = e}

\* purchases of event e whose reservation is written and whose payment is
\* pending
Holding(e) ==
    {b \in Buyers : /\ buy[b].event_id = e
                    /\ payments[b].payment_status = "pending"
                    /\ \/ buy[b].pc \in {"paypal", "save_order", "restore_count"}
                       \/ buy[b].pc = "done" /\ buy[b].result = "success"}

\* C38: no overselling: in every reachable state, for every event the number
\* of tickets issued for it plus the quantity held by its pending intents never
\* exceeds the event's total capacity, under any interleaving of purchases,
\* purchase-open rollbacks, failed-payment releases and completion
\* notifications.
C38_NoOverselling ==
    \A e \in EventIds :
        Cardinality(IssuedFor(e)) + SumQuantity(Holding(e)) <= events[e].total_tickets

\* C39: every ticket issued for a confirmed intent carries the event id of the
\* event whose capacity that purchase reserved; issuance never attaches the
\* tickets to another event.
C39_TicketsOfReservedEvent ==
    \A t \in tickets :
        t.payment_id \in PaymentIds => t.event_id = buy[t.payment_id].event_id
====
